---- MODULE Spec2Model ----
(***************************************************************************)
(* Model of the runtimeconfigurator watcher (Client.NewVariable and        *)
(* watcher.Watch) of go-cloud.  Time is counted in minutes; one tick of    *)
(* `now` is one minute of the monotonic clock.                             *)
(***************************************************************************)
EXTENDS Integers, Sequences, FiniteSets, TLC

\* ------------------------------------------------------------------ bounds
\* Last minute of the clock that the model explores.
MaxTime == 11
\* Largest WaitTime option (minutes) a caller passes explicitly.
MaxWaitTime == 1
\* Latest minute at which NewVariable is called.
MaxStart == 0
\* Number of GetVariable calls the model follows.
MaxFetch == 3
\* Callers that may invoke Watch; the single-caller specification uses caller 1.
Procs == {1, 2}

\* ------------------------------------------------------------ program data
\* defaultWaitTimeout = 10 * time.Minute
defaultWaitTimeout == 10

\* ptypes.Timestamp accepts nanos in [0, 1e9)
NanosPerSecond == 1000000000

\* A Go byte slice: nil, or a (possibly empty) sequence of bytes.
NilSlice == [isNil |-> TRUE, data |-> <<>>]

Slice(s) == [isNil |-> FALSE, data |-> s]

len(a) == Len(a.data)

\* time.Time{}: the zero time of the updateTime field before any fetch.
ZeroTime == [isZero |-> TRUE, seconds |-> 0, nanos |-> 0]

TimeAt(s, n) == [isZero |-> FALSE, seconds |-> s, nanos |-> n]

\* Byte payloads and text payloads (sequences of runes) the service may hold.
ByteStrings == {<<>>, <<97>>, <<98>>}

Texts == {<<97>>, <<233>>}

\* Contents the modelled decode function rejects.
Undecodable == {<<>>, <<98>>}

\* *timestamp.Timestamp values a response may carry: the service's update
\* times 1 and 2, a nil stamp, and stamps whose nanos are out of range.
NilTimestamp == [isNil |-> TRUE, seconds |-> 0, nanos |-> 0]

ValidTimestamps == {[isNil |-> FALSE, seconds |-> t, nanos |-> 0] : t \in {1, 2}}

InvalidTimestamps == {NilTimestamp} \cup
    {[isNil |-> FALSE, seconds |-> 1, nanos |-> n] : n \in {-1, NanosPerSecond}}

\* The oneof Contents of a pb.Variable: a Value (bytes), a Text, or unset.
ValueContents(v) == [contents |-> "value", value |-> v, text |-> <<>>]

TextContents(x) == [contents |-> "text", value |-> NilSlice, text |-> x]

NoContents == [contents |-> "none", value |-> NilSlice, text |-> <<>>]

Contents ==
    {ValueContents(v) : v \in {NilSlice} \cup {Slice(b) : b \in ByteStrings}}
    \cup {TextContents(x) : x \in Texts}
    \cup {NoContents}

WithUpdateTime(c, ts) ==
    [contents |-> c.contents, value |-> c.value, text |-> c.text, updateTime |-> ts]

\* pb.Variable: every content with every valid update time, and a binary and a
\* text content with every invalid one.
Variables ==
    {WithUpdateTime(c, ts) : c \in Contents, ts \in ValidTimestamps}
    \cup {WithUpdateTime(c, ts) :
            c \in {ValueContents(Slice(<<97>>)), TextContents(<<233>>)},
            ts \in InvalidTimestamps}

NoVariable == [contents |-> "none", value |-> NilSlice, text |-> <<>>,
               updateTime |-> NilTimestamp]

\* Outcomes of GetVariable: a variable, a NotFound status, another status
\* (classified), or an error that carries no gRPC status (not classified).
Responses ==
    {[kind |-> "ok", vpb |-> v] : v \in Variables}
    \cup {[kind |-> k, vpb |-> NoVariable] : k \in {"notfound", "status", "nostatus"}}

NoResponse == [kind |-> "none", vpb |-> NoVariable]

\* UTF-8 encoding of one rune (runes below 2048 suffice for Texts).
utf8(r) == IF r < 128 THEN <<r>> ELSE <<192 + (r \div 64), 128 + (r % 64)>>

RECURSIVE bytesOfString(_)
bytesOfString(s) == IF s = <<>> THEN <<>> ELSE utf8(Head(s)) \o bytesOfString(Tail(s))

bytesFromProto(vpb) ==
    IF vpb.contents = "value" THEN vpb.value ELSE Slice(bytesOfString(vpb.text))

RECURSIVE differsFrom(_, _, _, _)
differsFrom(a, b, i, n) ==
    IF i > n THEN FALSE
    ELSE IF a.data[i] # b.data[i] THEN TRUE
    ELSE differsFrom(a, b, i + 1, n)

\* Bug variant: a nil slice and an empty slice are told apart.
bytesNotEqual_nilAware(a, b) ==
    IF a.isNil # b.isNil \/ len(a) # len(b) THEN TRUE ELSE differsFrom(a, b, 1, len(a))

\* Bug variant: the function ends with return true.
bytesNotEqual_tailTrue(a, b) ==
    IF len(a) # len(b) THEN TRUE ELSE TRUE

bytesNotEqual(a, b) ==
    IF len(a) # len(b) THEN TRUE ELSE differsFrom(a, b, 1, len(a))

\* Bug variant: only a nil timestamp is rejected.
parseUpdateTime_nilOnly(vpb) ==
    LET ts == vpb.updateTime IN
    IF ts.isNil
    THEN [err |-> TRUE, time |-> ZeroTime]
    ELSE [err |-> FALSE, time |-> TimeAt(ts.seconds, ts.nanos)]

\* ptypes.Timestamp as parseUpdateTime uses it: err for a nil or invalid stamp.
parseUpdateTime(vpb) ==
    LET ts == vpb.updateTime IN
    IF ts.isNil \/ ts.nanos < 0 \/ ts.nanos >= NanosPerSecond
    THEN [err |-> TRUE, time |-> ZeroTime]
    ELSE [err |-> FALSE, time |-> TimeAt(ts.seconds, ts.nanos)]

\* runtimevar.Decoder.Decode with the configured decode function.
Decode(b) ==
    IF b.data \in Undecodable
    THEN [err |-> TRUE, val |-> <<>>]
    ELSE [err |-> FALSE, val |-> <<"decoded", b.data>>]

\* ------------------------------------------------------------------- state
VARIABLES
    now,        \* the clock (minutes)
    callers,    \* the callers that use the watcher
    opts,       \* the options of the NewVariable call, once made
    newErr,     \* the result of NewVariable: "pending", "ok", "negative"
    w,          \* the watcher, or NoWatcher
    pc,         \* per caller: position inside Watch
    ctxDone,    \* per caller: the context of the running call is cancelled
    timer,      \* per caller: the timer of the current iteration
    resp,       \* per caller: the response GetVariable returned, while in use
    ret,        \* per caller: what the last Watch call returned
    entry,      \* per caller: Watch State when the call began
    rpcCount,   \* number of GetVariable calls issued
    fetchedAt,  \* when the last GetVariable call returned
    lastValue,  \* content of the last value returned, none since a not-found return
    reports,    \* not-found errors returned since the cache was last updated
    waitCancelled, \* per caller: the context was cancelled when the wait began
    stable,     \* the service now answers every fetch with new, decodable content
    initDone,   \* package mysql: init() has run
    schemes,    \* package mysql: per URLMux, its schemes map
    muxRet      \* package mysql: outcome of the last URLMux operation

\* The variables of package mysql.
muxVars == <<initDone, schemes, muxRet>>

\* The variables of the watcher and its callers.
watchVars == <<now, callers, opts, newErr, w, pc, ctxDone, timer, resp, ret, entry, rpcCount,
               fetchedAt, lastValue, reports, waitCancelled, stable>>

vars == <<watchVars, muxVars>>

NoValue == [some |-> FALSE, data |-> <<>>]

SomeValue(d) == [some |-> TRUE, data |-> d]

NoWatcher == [exists |-> FALSE, waitTime |-> 0, lastRPCTime |-> 0, bytes |-> NilSlice,
              isDeleted |-> FALSE, updateTime |-> ZeroTime]

NilOpts == [isNil |-> TRUE, WaitTime |-> 0]

NoOpts == [isNil |-> TRUE, WaitTime |-> -1]

Options == {NilOpts} \cup {[isNil |-> FALSE, WaitTime |-> t] : t \in (-1)..MaxWaitTime}

NoTimer == [state |-> "none", d |-> 0, deadline |-> 0]

NoReturn == [kind |-> "none", val |-> <<>>, updateTime |-> ZeroTime]

Return(k) == [kind |-> k, val |-> <<>>, updateTime |-> ZeroTime]

\* The fields of the watcher that record the last observation.
WatchState(x) == [bytes |-> x.bytes, isDeleted |-> x.isDeleted, updateTime |-> x.updateTime]

\* ------------------------------------------------------ package mysql: data
\* const Scheme = "mysql"; strings are sequences of characters.
Scheme == <<"m", "y", "s", "q", "l">>

\* Schemes that openers are registered under and that URLs carry.
RegSchemes == {Scheme, <<"p", "g">>, <<>>}

URLSchemes == RegSchemes \cup {<<"M", "y", "S", "Q", "L">>}

\* URL strings handed to OpenMySQL and Open: "mysql://h", "MySQL://h", "pg://h",
\* "//h", "://h", "h", "1a://h".
URLStrings ==
    {Scheme \o <<":", "/", "/", "h">>,
     <<"M", "y", "S", "Q", "L", ":", "/", "/", "h">>,
     <<"p", "g", ":", "/", "/", "h">>,
     <<"/", "/", "h">>,
     <<":", "/", "/", "h">>,
     <<"h">>,
     <<"1", "a", ":", "/", "/", "h">>}

\* &URLOpener{} of this package, another driver's opener, and a nil opener.
URLOpener == "URLOpener"

NilOpener == "nil"

Absent == "absent"

Openers == {URLOpener, "other"}

\* The URLMux values: defaultURLMux and one more mux; NilMux is a nil *URLMux.
DefaultMux == "default"

NilMux == "nilmux"

MuxIds == {DefaultMux, "mux"}

\* map[string]MySQLURLOpener: nil, or a map from the registered schemes.
NilMap == [isNil |-> TRUE, m |-> [k \in RegSchemes |-> Absent]]

\* The zero value of URLMux, and new(URLMux).
ZeroMux == NilMap

NoMuxRet == [op |-> "none", mux |-> NilMux, scheme |-> <<>>, opener |-> NilOpener,
             panic |-> FALSE, err |-> "none", invoked |-> Absent]

InitMux ==
    /\ initDone = FALSE
    /\ schemes = [x \in MuxIds |-> ZeroMux]
    /\ muxRet = NoMuxRet

InitCommon ==
    /\ now = 0
    /\ opts = NoOpts
    /\ newErr = "pending"
    /\ w = NoWatcher
    /\ pc = [c \in Procs |-> "idle"]
    /\ ctxDone = [c \in Procs |-> FALSE]
    /\ timer = [c \in Procs |-> NoTimer]
    /\ resp = [c \in Procs |-> NoResponse]
    /\ ret = [c \in Procs |-> NoReturn]
    /\ entry = [c \in Procs |-> WatchState(NoWatcher)]
    /\ rpcCount = 0
    /\ fetchedAt = 0
    /\ lastValue = NoValue
    /\ reports = 0
    /\ waitCancelled = [c \in Procs |-> FALSE]
    /\ stable = FALSE
    /\ InitMux

Init == InitCommon /\ callers = {1}

\* ----------------------------------------------------------------- actions
\* The clock advances.
Tick ==
    /\ now < MaxTime
    /\ newErr = "pending" => now < MaxStart
    /\ now' = now + 1
    /\ UNCHANGED <<callers, opts, newErr, w, pc, ctxDone, timer, resp, ret, entry, rpcCount,
                   fetchedAt>>
    /\ UNCHANGED <<lastValue, reports, waitCancelled, stable, muxVars>>

\* Bug variant: a negative WaitTime is replaced by the default instead of rejected.
resolveWaitTime_clamp(o) ==
    LET waitTime == IF o.isNil THEN 0 ELSE o.WaitTime IN
    IF waitTime <= 0 THEN [err |-> FALSE, waitTime |-> defaultWaitTimeout]
    ELSE [err |-> FALSE, waitTime |-> waitTime]

\* Bug variant: only the negative case is handled; a zero WaitTime is kept.
resolveWaitTime_keepZero(o) ==
    LET waitTime == IF o.isNil THEN 0 ELSE o.WaitTime IN
    IF waitTime < 0 THEN [err |-> TRUE, waitTime |-> waitTime]
    ELSE [err |-> FALSE, waitTime |-> waitTime]

\* waitTime := opts.WaitTime with the switch of NewVariable; err for a negative one.
resolveWaitTime(o) ==
    LET waitTime == IF o.isNil THEN 0 ELSE o.WaitTime IN
    IF waitTime = 0 THEN [err |-> FALSE, waitTime |-> defaultWaitTimeout]
    ELSE IF waitTime < 0 THEN [err |-> TRUE, waitTime |-> waitTime]
    ELSE [err |-> FALSE, waitTime |-> waitTime]

\* Bug variant: lastRPCTime starts at the construction time.
initialLastRPCTime_now(t, waitTime) == t

\* lastRPCTime: time.Now().Add(-1 * waitTime)
initialLastRPCTime(t, waitTime) == t - waitTime

NewVariable(o) ==
    /\ newErr = "pending"
    /\ opts' = o
    /\ LET r == resolveWaitTime(o) IN
       IF r.err
       THEN /\ newErr' = "negative"
            /\ w' = w
       ELSE /\ newErr' = "ok"
            /\ w' = [exists |-> TRUE, waitTime |-> r.waitTime,
                     lastRPCTime |-> initialLastRPCTime(now, r.waitTime),
                     bytes |-> NilSlice, isDeleted |-> FALSE, updateTime |-> ZeroTime]
    /\ UNCHANGED <<now, callers, pc, ctxDone, timer, resp, ret, entry, rpcCount, fetchedAt>>
    /\ UNCHANGED <<lastValue, reports, waitCancelled, stable, muxVars>>

\* A caller invokes Watch with a context that may already be cancelled.
WatchCall(c, cancelled) ==
    /\ w.exists
    /\ pc[c] = "idle"
    /\ pc' = [pc EXCEPT ![c] = "timer"]
    /\ ctxDone' = [ctxDone EXCEPT ![c] = cancelled]
    /\ ret' = [ret EXCEPT ![c] = NoReturn]
    /\ entry' = [entry EXCEPT ![c] = WatchState(w)]
    /\ timer' = [timer EXCEPT ![c] = NoTimer]
    /\ UNCHANGED <<now, callers, opts, newErr, w, resp, rpcCount, fetchedAt>>
    /\ UNCHANGED <<lastValue, reports, waitCancelled, stable, muxVars>>

\* The context of a running call is cancelled.
Cancel(c) ==
    /\ pc[c] # "idle"
    /\ ~ctxDone[c]
    /\ ctxDone' = [ctxDone EXCEPT ![c] = TRUE]
    /\ UNCHANGED <<now, callers, opts, newErr, w, pc, timer, resp, ret, entry, rpcCount, fetchedAt>>
    /\ UNCHANGED <<lastValue, reports, waitCancelled, stable, muxVars>>

\* Watch returns r to caller c; the call's context and response are dropped.
Returns(c, r) ==
    /\ pc' = [pc EXCEPT ![c] = "idle"]
    /\ ret' = [ret EXCEPT ![c] = r]
    /\ ctxDone' = [ctxDone EXCEPT ![c] = FALSE]
    /\ resp' = [resp EXCEPT ![c] = NoResponse]

\* Bug variant: the operands of the subtraction are swapped.
remaining_swapped(x, t) == (t - x.lastRPCTime) - x.waitTime

\* w.waitTime - time.Now().Sub(w.lastRPCTime)
remaining(x, t) == x.waitTime - (t - x.lastRPCTime)

\* t := time.NewTimer(...); the previous iteration's vpb and err are out of scope.
NewTimer(c) ==
    /\ pc[c] = "timer"
    /\ LET d == remaining(w, now) IN
       timer' = [timer EXCEPT ![c] = [state |-> "pending", d |-> d, deadline |-> now + d]]
    /\ resp' = [resp EXCEPT ![c] = NoResponse]
    /\ pc' = [pc EXCEPT ![c] = "select"]
    /\ UNCHANGED <<now, callers, opts, newErr, w, ctxDone, ret, entry, rpcCount, fetchedAt>>
    /\ waitCancelled' = [waitCancelled EXCEPT ![c] = ctxDone[c]]
    /\ UNCHANGED <<lastValue, reports, stable, muxVars>>

\* case <-t.C is ready once the timer's duration has elapsed.
timerReady(tm, t) == t >= tm.deadline

\* case <-t.C: then GetVariable is issued.
SelectTimer(c) ==
    /\ pc[c] = "select"
    /\ timerReady(timer[c], now)
    /\ rpcCount < MaxFetch
    /\ timer' = [timer EXCEPT ![c] = [state |-> "fired", d |-> 0, deadline |-> 0]]
    /\ pc' = [pc EXCEPT ![c] = "rpc"]
    /\ rpcCount' = rpcCount + 1
    /\ UNCHANGED <<now, callers, opts, newErr, w, ctxDone, resp, ret, entry, fetchedAt>>
    /\ waitCancelled' = [waitCancelled EXCEPT ![c] = FALSE]
    /\ UNCHANGED <<lastValue, reports, stable, muxVars>>

\* Bug variant: the timer is not stopped on cancellation.
SelectDone_noStop(c) ==
    /\ pc[c] = "select"
    /\ ctxDone[c]
    /\ timer' = timer
    /\ Returns(c, Return("cancel"))
    /\ UNCHANGED <<now, callers, opts, newErr, w, entry, rpcCount, fetchedAt>>
    /\ waitCancelled' = [waitCancelled EXCEPT ![c] = FALSE]
    /\ UNCHANGED <<lastValue, reports, stable, muxVars>>

\* case <-ctx.Done(): t.Stop(); return zeroVar, ctx.Err()
SelectDone(c) ==
    /\ pc[c] = "select"
    /\ ctxDone[c]
    /\ timer' = [timer EXCEPT ![c] = [state |-> "stopped", d |-> 0, deadline |-> 0]]
    /\ Returns(c, Return("cancel"))
    /\ UNCHANGED <<now, callers, opts, newErr, w, entry, rpcCount, fetchedAt>>
    /\ waitCancelled' = [waitCancelled EXCEPT ![c] = FALSE]
    /\ UNCHANGED <<lastValue, reports, stable, muxVars>>

\* Bug variant: the time of the fetch attempt is not recorded.
RpcReturn_noRecord(c, r) ==
    /\ pc[c] = "rpc"
    /\ resp' = [resp EXCEPT ![c] = r]
    /\ pc' = [pc EXCEPT ![c] = "classify"]
    /\ fetchedAt' = now
    /\ UNCHANGED <<now, callers, opts, newErr, w, ctxDone, timer, ret, entry, rpcCount>>
    /\ UNCHANGED <<lastValue, reports, waitCancelled, stable, muxVars>>

\* vpb, err := w.client.GetVariable(...) returns r; w.lastRPCTime = time.Now()
RpcReturn(c, r) ==
    /\ pc[c] = "rpc"
    /\ resp' = [resp EXCEPT ![c] = r]
    /\ w' = [w EXCEPT !.lastRPCTime = now]
    /\ pc' = [pc EXCEPT ![c] = "classify"]
    /\ fetchedAt' = now
    /\ UNCHANGED <<now, callers, opts, newErr, ctxDone, timer, ret, entry, rpcCount>>
    /\ UNCHANGED <<lastValue, reports, waitCancelled, stable, muxVars>>

\* Bug variant: the deleted state is not consulted.
isChange_bytesOnly(x, bytes) == bytesNotEqual(x.bytes, bytes)

\* Bug variant: only a deletion counts as a change.
isChange_deletedOnly(x, bytes) == x.isDeleted

\* if w.isDeleted || bytesNotEqual(w.bytes, bytes)
isChange(x, bytes) == x.isDeleted \/ bytesNotEqual(x.bytes, bytes)

\* Bug variant: ok && st.Code() != codes.NotFound; an error without a status
\* falls through to the not-found branch.
isFatal_statusOnly(r) == r.kind = "status"

\* status.FromError(err): !ok || st.Code() != codes.NotFound
isFatal(r) == r.kind # "notfound"

\* Bug variant: every not-found response is reported, deleted or not.
classify_ignoreDeleted(x, r) ==
    IF r.kind = "ok"
    THEN IF parseUpdateTime(r.vpb).err THEN "parse"
         ELSE IF isChange(x, bytesFromProto(r.vpb)) THEN "update"
         ELSE "loop"
    ELSE IF isFatal(r) THEN "error"
         ELSE "markDeleted"

\* What Watch does with a response, up to the test that guards a state update:
\* return a "parse" or fetch "error", "update", "markDeleted" or "loop".
classify(x, r) ==
    IF r.kind = "ok"
    THEN IF parseUpdateTime(r.vpb).err THEN "parse"
         ELSE IF isChange(x, bytesFromProto(r.vpb)) THEN "update"
         ELSE "loop"
    ELSE IF isFatal(r) THEN "error"
         ELSE IF ~x.isDeleted THEN "markDeleted"
         ELSE "loop"

\* The branches of Watch on the response, lines 171-180 and 194-200.
Classify(c) ==
    /\ pc[c] = "classify"
    /\ LET k == classify(w, resp[c]) IN
       CASE k \in {"parse", "error"} ->
              Returns(c, Return(k))
         [] k \in {"update", "markDeleted"} ->
              /\ pc' = [pc EXCEPT ![c] = k]
              /\ UNCHANGED <<ret, ctxDone, resp>>
         [] OTHER ->
              /\ pc' = [pc EXCEPT ![c] = "timer"]
              /\ UNCHANGED <<ret, ctxDone, resp>>
    /\ UNCHANGED <<now, callers, opts, newErr, w, timer, entry, rpcCount, fetchedAt>>
    /\ UNCHANGED <<lastValue, reports, waitCancelled, stable, muxVars>>

\* Bug variant: isDeleted is not cleared.
cacheUpdate_keepDeleted(x, bytes, updateTime) ==
    [x EXCEPT !.bytes = bytes, !.updateTime = updateTime]

\* The watcher after lines 181-183: the cache is written before decoding.
cacheUpdate(x, bytes, updateTime) ==
    [x EXCEPT !.bytes = bytes, !.updateTime = updateTime, !.isDeleted = FALSE]

\* w.bytes = bytes; w.updateTime = updateTime; w.isDeleted = false; decode; return.
Update(c) ==
    /\ pc[c] = "update"
    /\ LET bytes == bytesFromProto(resp[c].vpb)
           updateTime == parseUpdateTime(resp[c].vpb).time
           dec == Decode(bytes)
       IN /\ w' = cacheUpdate(w, bytes, updateTime)
          /\ Returns(c, IF dec.err THEN Return("decode")
                        ELSE [kind |-> "value", val |-> dec.val, updateTime |-> updateTime])
          /\ lastValue' = IF dec.err THEN lastValue ELSE SomeValue(bytes.data)
    /\ reports' = 0
    /\ UNCHANGED <<now, callers, opts, newErr, timer, entry, rpcCount, fetchedAt>>
    /\ UNCHANGED <<waitCancelled, stable, muxVars>>

\* w.isDeleted = true; w.updateTime = time.Now().UTC(); return zeroVar, err
MarkDeleted(c) ==
    /\ pc[c] = "markDeleted"
    /\ w' = [w EXCEPT !.isDeleted = TRUE, !.updateTime = TimeAt(now, 0)]
    /\ Returns(c, Return("notfound"))
    /\ UNCHANGED <<now, callers, opts, newErr, timer, entry, rpcCount, fetchedAt>>
    /\ lastValue' = NoValue
    /\ reports' = reports + 1
    /\ UNCHANGED <<waitCancelled, stable, muxVars>>

Next ==
    \/ Tick
    \/ \E o \in Options : NewVariable(o)
    \/ \E c \in callers, cancelled \in BOOLEAN : WatchCall(c, cancelled)
    \/ \E c \in callers : Cancel(c)
    \/ \E c \in callers : NewTimer(c)
    \/ \E c \in callers : SelectTimer(c)
    \/ \E c \in callers : SelectDone(c)
    \/ \E c \in callers : \E r \in Responses : RpcReturn(c, r)
    \/ \E c \in callers : Classify(c)
    \/ \E c \in callers : Update(c)
    \/ \E c \in callers : MarkDeleted(c)

Spec == Init /\ [][Next]_vars

\* ------------------------------------------- two callers on one watcher
\* The options and the server's answers of the concurrent runs: no options
\* (the default wait time), and a variable that either holds the content "a",
\* stamped with time 1, or is absent.
ConcOptions == {NilOpts}

ConcVariable ==
    WithUpdateTime(ValueContents(Slice(<<97>>)), [isNil |-> FALSE, seconds |-> 1, nanos |-> 0])

ConcResponses == {r \in Responses : r.kind = "notfound" \/ (r.kind = "ok" /\ r.vpb = ConcVariable)}

InitConc == InitCommon /\ callers = Procs

\* Two goroutines call Watch on the same watcher; the steps of the two calls
\* interleave between the statements of Watch.
NextConc ==
    \/ Tick
    \/ \E o \in ConcOptions : NewVariable(o)
    \/ \E c \in callers : WatchCall(c, FALSE)
    \/ \E c \in callers : NewTimer(c)
    \/ \E c \in callers : SelectTimer(c)
    \/ \E c \in callers : \E r \in ConcResponses : RpcReturn(c, r)
    \/ \E c \in callers : Classify(c)
    \/ \E c \in callers : Update(c)
    \/ \E c \in callers : MarkDeleted(c)

SpecConc == InitConc /\ [][NextConc]_vars

\* ------------------------------------------------- a server that settles
\* The options and the server's answers of the fair runs: no options, and a
\* variable that is absent, unreadable, or holds "a", "b" or the text "e-acute".
LiveOptions == {NilOpts}

LiveTimestamp == [isNil |-> FALSE, seconds |-> 1, nanos |-> 0]

LiveResponses ==
    {r \in Responses :
        \/ r.kind \in {"notfound", "status"}
        \/ /\ r.kind = "ok"
           /\ r.vpb \in {WithUpdateTime(ValueContents(Slice(<<97>>)), LiveTimestamp),
                         WithUpdateTime(ValueContents(Slice(<<98>>)), LiveTimestamp),
                         WithUpdateTime(TextContents(<<233>>), LiveTimestamp)}}

\* A response that succeeds with decodable content that differs from lastContent.
Fresh(x, r) ==
    /\ r.kind = "ok"
    /\ ~parseUpdateTime(r.vpb).err
    /\ bytesNotEqual(x.bytes, bytesFromProto(r.vpb))
    /\ ~Decode(bytesFromProto(r.vpb)).err

\* From this point on every fetch is answered with a fresh response.
Stabilize ==
    /\ w.exists
    /\ ~stable
    /\ stable' = TRUE
    /\ UNCHANGED <<now, callers, opts, newErr, w, pc, ctxDone, timer, resp, ret, entry,
                   rpcCount, fetchedAt, lastValue, reports, waitCancelled, muxVars>>

\* GetVariable returns; once the server has settled, with a fresh response.
LiveRpcReturn(c) ==
    \E r \in LiveResponses :
        /\ stable => Fresh(w, r)
        /\ RpcReturn(c, r)

\* One step of the goroutine that runs Watch for caller c.
Step(c) ==
    \/ NewTimer(c)
    \/ SelectTimer(c)
    \/ SelectDone(c)
    \/ LiveRpcReturn(c)
    \/ Classify(c)
    \/ Update(c)
    \/ MarkDeleted(c)

NextLive ==
    \/ Tick
    \/ Stabilize
    \/ \E o \in LiveOptions : NewVariable(o)
    \/ \E c \in callers : WatchCall(c, FALSE)
    \/ \E c \in callers : Cancel(c)
    \/ \E c \in callers : Step(c)

\* Time passes, and a goroutine that can take a step eventually takes one.
Fairness ==
    /\ WF_vars(Tick)
    /\ \A c \in Procs : WF_vars(Step(c))

SpecLive == Init /\ [][NextLive]_vars /\ Fairness

\* ------------------------------------------------ package mysql: operations
\* Bug variant: the existing opener is overwritten instead of panicking.
registerMySQL_overwrite(map, scheme, opener) ==
    [panic |-> FALSE, map |-> [isNil |-> FALSE, m |-> [map.m EXCEPT ![scheme] = opener]]]

\* URLMux.RegisterMySQL on the schemes map: the map after the call, and whether
\* the call panicked.
registerMySQL(map, scheme, opener) ==
    IF map.isNil
    THEN [panic |-> FALSE,
          map |-> [isNil |-> FALSE, m |-> [k \in RegSchemes |->
                                             IF k = scheme THEN opener ELSE Absent]]]
    ELSE IF map.m[scheme] # Absent
    THEN [panic |-> TRUE, map |-> map]
    ELSE [panic |-> FALSE, map |-> [map EXCEPT !.m[scheme] = opener]]

\* mux.schemes[u.Scheme]: the zero value (a nil opener) for a missing key.
lookup(map, scheme) ==
    IF scheme \in RegSchemes /\ map.m[scheme] # Absent THEN map.m[scheme] ELSE NilOpener

\* Bug variant: the lookup always goes to the default mux's map.
openMySQLURL_default(muxes, mux, scheme) ==
    IF scheme = <<>> THEN [err |-> "noscheme", invoked |-> Absent]
    ELSE LET opener == lookup(muxes[DefaultMux], scheme) IN
         IF opener = NilOpener THEN [err |-> "noprovider", invoked |-> Absent]
         ELSE [err |-> "none", invoked |-> opener]

\* URLMux.OpenMySQLURL: the error it returns or the opener it invokes.
openMySQLURL(muxes, mux, scheme) ==
    IF scheme = <<>> THEN [err |-> "noscheme", invoked |-> Absent]
    ELSE LET opener == IF mux # NilMux THEN lookup(muxes[mux], scheme) ELSE NilOpener IN
         IF opener = NilOpener THEN [err |-> "noprovider", invoked |-> Absent]
         ELSE [err |-> "none", invoked |-> opener]

Letters == {"a", "g", "h", "l", "m", "p", "q", "s", "y", "L", "M", "Q", "S"}

SchemeMarks == {"0", "1", "+", "-", "."}

\* strings.ToLower on one character.
toLowerChar(ch) ==
    CASE ch = "L" -> "l" [] ch = "M" -> "m" [] ch = "Q" -> "q" [] ch = "S" -> "s"
      [] OTHER -> ch

toLower(str) == [i \in 1..Len(str) |-> toLowerChar(str[i])]

\* net/url getScheme: the scheme before the first ':', none, or an error.
RECURSIVE getScheme(_, _)
getScheme(rawurl, i) ==
    IF i > Len(rawurl) THEN [err |-> FALSE, scheme |-> <<>>]
    ELSE IF rawurl[i] \in Letters THEN getScheme(rawurl, i + 1)
    ELSE IF rawurl[i] \in SchemeMarks
    THEN IF i = 1 THEN [err |-> FALSE, scheme |-> <<>>] ELSE getScheme(rawurl, i + 1)
    ELSE IF rawurl[i] = ":"
    THEN IF i = 1 THEN [err |-> TRUE, scheme |-> <<>>]
         ELSE [err |-> FALSE, scheme |-> SubSeq(rawurl, 1, i - 1)]
    ELSE [err |-> FALSE, scheme |-> <<>>]

\* url.Parse, as far as the scheme of the URL goes.
urlParse(urlstr) ==
    LET r == getScheme(urlstr, 1) IN [err |-> r.err, scheme |-> toLower(r.scheme)]

\* URLMux.OpenMySQL
openMySQL(muxes, mux, urlstr) ==
    LET u == urlParse(urlstr) IN
    IF u.err THEN [err |-> "parse", invoked |-> Absent]
    ELSE openMySQLURL(muxes, mux, u.scheme)

\* URLMux.RegisterMySQL(scheme, opener) on mux x; a panic is recovered by the caller.
Register(x, scheme, opener) ==
    LET r == registerMySQL(schemes[x], scheme, opener) IN
    /\ schemes' = [schemes EXCEPT ![x] = r.map]
    /\ muxRet' = [op |-> "register", mux |-> x, scheme |-> scheme, opener |-> opener,
                  panic |-> r.panic, err |-> "none", invoked |-> Absent]

\* func init() { DefaultURLMux().RegisterMySQL(Scheme, &URLOpener{}) }
PackageInit ==
    /\ ~initDone
    /\ initDone' = TRUE
    /\ Register(DefaultMux, Scheme, URLOpener)
    /\ UNCHANGED watchVars

RegisterMySQL(x, scheme, opener) ==
    /\ initDone
    /\ Register(x, scheme, opener)
    /\ UNCHANGED <<initDone, watchVars>>

OpenMySQLURL(x, scheme) ==
    /\ initDone
    /\ LET r == openMySQLURL(schemes, x, scheme) IN
       muxRet' = [op |-> "openurl", mux |-> x, scheme |-> scheme, opener |-> NilOpener,
                  panic |-> FALSE, err |-> r.err, invoked |-> r.invoked]
    /\ UNCHANGED <<initDone, schemes, watchVars>>

OpenMySQL(x, urlstr) ==
    /\ initDone
    /\ LET r == openMySQL(schemes, x, urlstr) IN
       muxRet' = [op |-> "open", mux |-> x, scheme |-> urlstr, opener |-> NilOpener,
                  panic |-> FALSE, err |-> r.err, invoked |-> r.invoked]
    /\ UNCHANGED <<initDone, schemes, watchVars>>

\* func Open: defaultURLMux.OpenMySQL(ctx, urlstr)
Open(urlstr) == OpenMySQL(DefaultMux, urlstr)

NextMux ==
    \/ PackageInit
    \/ \E x \in MuxIds, k \in RegSchemes, o \in Openers \cup {NilOpener} :
          RegisterMySQL(x, k, o)
    \/ \E x \in MuxIds \cup {NilMux}, k \in URLSchemes : OpenMySQLURL(x, k)
    \/ \E x \in MuxIds \cup {NilMux}, u \in URLStrings : OpenMySQL(x, u)
    \/ \E u \in URLStrings : Open(u)

SpecMux == Init /\ [][NextMux]_vars

\* ------------------------------------------------------------- properties
\* A step in which caller c leaves position p of Watch.
Leaves(c, p) == pc[c] = p /\ pc'[c] # p

\* The content a response carries, as a plain byte sequence.
Payload(r) == bytesFromProto(r.vpb).data

\* A timestamp that ptypes.Timestamp rejects.
Malformed(ts) == ts.isNil \/ ts.nanos \notin 0..(NanosPerSecond - 1)

\* The minimum interval since the last recorded fetch has not yet elapsed.
Sleeping(c) == pc[c] = "select" /\ now < w.lastRPCTime + w.waitTime

\* C1: a not-found fetch seen while the state is not deleted makes Watch return
\* the not-found error and set isDeleted; a not-found fetch seen while isDeleted
\* is set returns nothing and Watch polls again; hence no call that began in the
\* deleted state returns not-found unless a fetch succeeded in between.
C1_DeletionReportedOnce ==
    /\ [][\A c \in callers :
            /\ (Leaves(c, "classify") /\ resp[c].kind = "notfound" /\ ~w.isDeleted)
                 => (pc'[c] = "markDeleted" /\ ret'[c] = ret[c] /\ w' = w)
            /\ (Leaves(c, "markDeleted"))
                 => (pc'[c] = "idle" /\ ret'[c].kind = "notfound" /\ w'.isDeleted)
            /\ (Leaves(c, "classify") /\ resp[c].kind = "notfound" /\ w.isDeleted)
                 => (pc'[c] = "timer" /\ ret'[c] = NoReturn /\ w' = w)
            /\ (ret'[c].kind = "notfound" /\ ret[c].kind # "notfound")
                 => (~w.isDeleted /\ w'.isDeleted)]_vars
    /\ [](\A c \in callers : ret[c].kind = "notfound" => (~entry[c].isDeleted /\ w.isDeleted))

\* A repeated not-found response has been absorbed: Watch is polling again.
C1_Witness ==
    \E c \in callers :
        /\ pc[c] = "timer" /\ resp[c].kind = "notfound"
        /\ w.isDeleted /\ entry[c].isDeleted /\ ret[c] = NoReturn

\* C6: after NewVariable was called with a negative WaitTime it has failed with
\* the configuration error, no watcher exists, and no GetVariable call is issued.
C6_NegativeWaitTimeRejected ==
    (newErr # "pending" /\ ~opts.isNil /\ opts.WaitTime < 0)
        => /\ newErr = "negative"
           /\ ~w.exists
           /\ rpcCount = 0
           /\ \A c \in Procs : pc[c] = "idle" /\ ret[c] = NoReturn

\* Construction with a negative WaitTime has failed and time has passed since.
C6_Witness == newErr = "negative" /\ opts.WaitTime < 0 /\ now > MaxStart

\* C7: absent options or a zero WaitTime give the watcher the default of 10
\* minutes, a positive WaitTime is kept, and every watcher's waitTime is positive.
C7_WaitTimeDefaulted ==
    /\ newErr = "ok" =>
         /\ w.exists
         /\ (opts.isNil \/ opts.WaitTime = 0) => w.waitTime = 10
         /\ (~opts.isNil /\ opts.WaitTime > 0) => w.waitTime = opts.WaitTime
    /\ w.exists => (newErr = "ok" /\ w.waitTime > 0)

\* A watcher constructed with an explicit zero WaitTime.
C7_Witness == w.exists /\ ~opts.isNil /\ opts.WaitTime = 0 /\ w.waitTime = defaultWaitTimeout

\* C8: until the first GetVariable call has been issued, the delay computed for
\* an iteration of Watch is zero or negative and its timer is ready at once.
C8_FirstFetchImmediate ==
    \A c \in callers :
        (pc[c] = "select" /\ rpcCount = 0)
            => (timer[c].d <= 0 /\ timerReady(timer[c], now))

\* The first fetch of a default-interval watcher, issued in the minute of its
\* construction.
C8_Witness ==
    \E c \in callers :
        /\ pc[c] = "rpc" /\ rpcCount = 1
        /\ w.waitTime = defaultWaitTimeout
        /\ now = w.lastRPCTime + w.waitTime

\* C2: a fetch that succeeds with bytes equal to lastContent while isDeleted is
\* false returns no value and leaves lastContent, lastUpdateTime and isDeleted
\* as they were; with a well-formed timestamp Watch does not return at all and
\* polls again.  A value is returned only for bytes that differ from lastContent
\* or after a deleted state.
C2_NoSpuriousNotification ==
    [][\A c \in callers :
         /\ (Leaves(c, "classify") /\ resp[c].kind = "ok" /\ ~w.isDeleted
                /\ Payload(resp[c]) = w.bytes.data)
              => /\ WatchState(w') = WatchState(w)
                 /\ ret'[c].kind # "value"
                 /\ pc'[c] \notin {"update", "markDeleted"}
                 /\ ~Malformed(resp[c].vpb.updateTime)
                      => (pc'[c] = "timer" /\ ret'[c] = NoReturn)
         /\ (ret'[c].kind = "value" /\ ret[c].kind # "value")
              => /\ pc[c] = "update"
                 /\ w.isDeleted \/ Payload(resp[c]) # w.bytes.data
                 /\ ret'[c].val = Decode(Slice(Payload(resp[c]))).val]_vars

\* An unchanged fetch of cached, non-empty content has been absorbed.
C2_Witness ==
    \E c \in callers :
        /\ pc[c] = "timer" /\ resp[c].kind = "ok" /\ ret[c] = NoReturn
        /\ ~w.isDeleted /\ Payload(resp[c]) = w.bytes.data /\ Len(w.bytes.data) > 0
        /\ w.lastRPCTime = now

\* C3: in the deleted state a fetch that succeeds with a well-formed timestamp
\* and decodable content makes Watch return that value and clear isDeleted,
\* whatever the bytes, also when they equal the content cached before the deletion.
C3_DeletionForcesRenotification ==
    [][\A c \in callers :
         /\ (Leaves(c, "classify") /\ resp[c].kind = "ok" /\ w.isDeleted
                /\ ~Malformed(resp[c].vpb.updateTime))
              => (pc'[c] = "update" /\ resp'[c] = resp[c] /\ w' = w)
         /\ (Leaves(c, "update") /\ w.isDeleted /\ Payload(resp[c]) \notin Undecodable)
              => /\ pc'[c] = "idle"
                 /\ ret'[c].kind = "value"
                 /\ ret'[c].val = Decode(Slice(Payload(resp[c]))).val
                 /\ ~w'.isDeleted
                 /\ w'.bytes.data = Payload(resp[c])]_vars

\* A call that began deleted has returned a value whose bytes equal the content
\* cached before the deletion.
C3_Witness ==
    \E c \in callers :
        /\ pc[c] = "idle" /\ ret[c].kind = "value"
        /\ entry[c].isDeleted /\ ~w.isDeleted
        /\ entry[c].bytes = w.bytes /\ Len(w.bytes.data) > 0

\* C4: when the context is cancelled while the minimum interval has not elapsed,
\* the only way Watch leaves its wait is by returning the cancellation error; that
\* step issues no GetVariable call and changes no field of the watcher, and a call
\* that returned the cancellation error left lastContent, lastUpdateTime and
\* isDeleted as they were when it began.
C4_CancelWhileSleeping ==
    /\ [][\A c \in callers :
            (Sleeping(c) /\ ctxDone[c] /\ pc'[c] # "select")
                => /\ pc'[c] = "idle"
                   /\ ret'[c].kind = "cancel"
                   /\ timer'[c].state = "stopped"
                   /\ rpcCount' = rpcCount
                   /\ w' = w]_vars
    /\ [](\A c \in callers : ret[c].kind = "cancel" => WatchState(w) = entry[c])

\* A call was cancelled between two polls, before the interval had elapsed.
C4_Witness ==
    \E c \in callers :
        /\ pc[c] = "idle" /\ ret[c].kind = "cancel"
        /\ rpcCount >= 1 /\ fetchedAt = w.lastRPCTime
        /\ now < w.lastRPCTime + w.waitTime

\* C5: every GetVariable call after the first is issued at least waitTime after
\* the previous call returned and was recorded, whatever that call's outcome.
C5_MinimumPacing ==
    [][\A c \in callers :
         (pc'[c] = "rpc" /\ pc[c] # "rpc" /\ rpcCount >= 1)
             => (now >= fetchedAt + w.waitTime /\ w.lastRPCTime = fetchedAt)]_vars

\* A call that began after an earlier call had returned an error has issued the
\* next fetch.
C5_Witness ==
    \E c \in callers :
        /\ pc[c] = "rpc" /\ rpcCount >= 2
        /\ entry[c] = WatchState(NoWatcher)
        /\ now = fetchedAt + w.waitTime

\* C9: a fetch that succeeds with a malformed timestamp makes Watch return the
\* parse error with lastContent, lastUpdateTime and isDeleted untouched, equal
\* to what they were when the call began.
C9_BadTimestampLeavesState ==
    /\ [][\A c \in callers :
            (Leaves(c, "classify") /\ resp[c].kind = "ok"
                /\ Malformed(resp[c].vpb.updateTime))
                => /\ pc'[c] = "idle"
                   /\ ret'[c].kind = "parse"
                   /\ WatchState(w') = WatchState(w)]_vars
    /\ [](\A c \in callers : ret[c].kind = "parse" => WatchState(w) = entry[c])

\* A parse error was returned by a watcher that holds cached content.
C9_Witness ==
    \E c \in callers :
        /\ pc[c] = "idle" /\ ret[c].kind = "parse"
        /\ Len(w.bytes.data) > 0 /\ ~w.isDeleted

\* C10: a call that returned the decode error left lastContent, lastUpdateTime
\* and isDeleted equal to their values before the call.
C10_DecodeErrorLeavesState ==
    \A c \in callers : ret[c].kind = "decode" => WatchState(w) = entry[c]

\* The watcher holds content: lastContent is present.
HasContent(x) == ~x.bytes.isNil

\* Caller c is between fetches or calls, and at least one fetch has been made.
AfterFetch(c) == rpcCount >= 1 /\ pc[c] \in {"idle", "timer", "select"}

\* C11: every value returned carries content that differs from the content of
\* the value returned before it, unless a not-found error was returned in between.
C11_NoRepeatedValue ==
    [][\A c \in callers :
         (ret'[c].kind = "value" /\ ret[c].kind # "value")
             => (~lastValue.some \/ lastValue.data # w'.bytes.data)]_vars

\* C12 as stated: after the first fetch exactly one of "has content" and "is
\* deleted" holds.
C12_ExactlyOneSignal ==
    \A c \in callers : AfterFetch(c) => (HasContent(w) # w.isDeleted)

\* C12 as amended: with one caller, isDeleted holds exactly when a not-found has
\* been reported since the cache was last updated, at most one such report is
\* made, and marking the deletion leaves lastContent as it was.
C12_DeletedIffReported ==
    /\ [](w.isDeleted <=> reports = 1)
    /\ [](reports <= 1)
    /\ [][(w'.isDeleted /\ ~w.isDeleted) => w'.bytes = w.bytes]_vars

\* Content was fetched and then deleted: both signals hold.
C12_Witness ==
    \E c \in callers :
        /\ AfterFetch(c) /\ ret[c].kind = "notfound"
        /\ w.isDeleted /\ HasContent(w) /\ len(w.bytes) > 0

\* C15: a fetch error other than not-found, classified or not, makes Watch
\* return that error at once with no further fetch; the fetch changed only
\* lastRPCTime, and lastContent, lastUpdateTime and isDeleted are as they were
\* when the call began.
C15_FatalErrorReturned ==
    /\ [][\A c \in callers :
            /\ (Leaves(c, "classify") /\ resp[c].kind \in {"status", "nostatus"})
                 => /\ pc'[c] = "idle"
                    /\ ret'[c].kind = "error"
                    /\ w' = w
                    /\ rpcCount' = rpcCount
            /\ Leaves(c, "rpc")
                 => /\ WatchState(w') = WatchState(w)
                    /\ w'.waitTime = w.waitTime
                    /\ w'.lastRPCTime = now]_vars
    /\ [](\A c \in callers : ret[c].kind = "error" => WatchState(w) = entry[c])

\* A later fetch failed for a watcher that holds content; only the time of the
\* attempt was recorded.
C15_Witness ==
    \E c \in callers :
        /\ pc[c] = "idle" /\ ret[c].kind = "error"
        /\ rpcCount >= 2 /\ HasContent(w)
        /\ w.lastRPCTime = fetchedAt /\ fetchedAt = now

\* C16: when the context was already cancelled as the wait began, Watch leaves
\* the wait by returning the cancellation error and issues no GetVariable call,
\* also when the timer is ready at the same time.
C16_CancelledBeforeWait ==
    [][\A c \in callers :
         (pc[c] = "select" /\ waitCancelled[c] /\ pc'[c] # "select")
             => (ret'[c].kind = "cancel" /\ rpcCount' = rpcCount)]_vars

\* C18: a call that has returned left no pending timer; a timer is pending only
\* during its iteration's wait, at most one at a time, and a pending timer is
\* replaced only after it fired or was stopped.
C18_TimerReleased ==
    /\ [](\A c \in callers :
            (pc[c] = "idle" /\ ret[c].kind # "none") => timer[c].state \in {"fired", "stopped"})
    /\ [](\A c \in callers : timer[c].state = "pending" => pc[c] = "select")
    /\ [](Cardinality({c \in Procs : timer[c].state = "pending"}) <= 1)
    /\ [][\A c \in callers :
            (timer[c].state = "pending" /\ timer'[c] # timer[c])
                => timer'[c].state \in {"fired", "stopped"}]_vars

\* A call cancelled during its wait has returned and its timer is stopped.
C18_Witness ==
    \E c \in callers :
        /\ pc[c] = "idle" /\ ret[c].kind = "cancel" /\ timer[c].state = "stopped"
        /\ now < w.lastRPCTime + w.waitTime

\* C20: on a watcher that has observed neither content nor a deletion, a fetch
\* that succeeds with zero-length content is treated as unchanged: Watch
\* returns nothing, changes nothing and polls again.
C20_EmptyContentUnchanged ==
    [][\A c \in callers :
         (Leaves(c, "classify") /\ resp[c].kind = "ok"
             /\ ~Malformed(resp[c].vpb.updateTime)
             /\ Len(Payload(resp[c])) = 0
             /\ w.bytes.isNil /\ ~w.isDeleted /\ w.updateTime = ZeroTime)
             => (pc'[c] = "timer" /\ ret'[c] = NoReturn /\ w' = w)]_vars

\* A fetch of empty, non-nil content was absorbed by a fresh watcher.
C20_Witness ==
    \E c \in callers :
        /\ pc[c] = "timer" /\ resp[c].kind = "ok" /\ ret[c] = NoReturn
        /\ ~bytesFromProto(resp[c].vpb).isNil /\ Payload(resp[c]) = <<>>
        /\ w.bytes.isNil /\ ~w.isDeleted /\ w.updateTime = ZeroTime

\* C13: RegisterMySQL panics when the scheme already has an opener and then
\* leaves the maps unchanged; otherwise it adds exactly that entry; an entry,
\* once made, is never replaced or removed.
C13_RegisterKeepsFirst ==
    /\ [][\A x \in MuxIds, k \in RegSchemes :
            schemes[x].m[k] # Absent => schemes'[x].m[k] = schemes[x].m[k]]_vars
    /\ [][(muxRet' # muxRet /\ muxRet'.op = "register" /\ initDone)
            => LET x == muxRet'.mux
                   k == muxRet'.scheme
               IN IF schemes[x].m[k] # Absent
                  THEN muxRet'.panic /\ schemes' = schemes
                  ELSE /\ ~muxRet'.panic
                       /\ schemes'[x].m[k] = muxRet'.opener
                       /\ \A y \in MuxIds, j \in RegSchemes :
                            (y # x \/ j # k) => schemes'[y].m[j] = schemes[y].m[j]]_vars

\* A second registration for a scheme panicked and the first opener is kept.
C13_Witness ==
    /\ muxRet.op = "register" /\ muxRet.panic
    /\ schemes[muxRet.mux].m[muxRet.scheme] \in Openers
    /\ muxRet.opener \in Openers
    /\ muxRet.opener # schemes[muxRet.mux].m[muxRet.scheme]

\* Mux x has an opener for scheme k.
HasOpener(x, k) ==
    /\ x # NilMux
    /\ k \in RegSchemes
    /\ schemes[x].m[k] \in Openers

\* C14: OpenMySQLURL invokes the opener its mux holds for the URL's scheme and
\* no other; for an empty scheme, a nil mux or a scheme without opener it
\* returns an error and invokes none; once init has run, the default mux holds
\* the package's URLOpener for "mysql" and Open dispatches "mysql://h" to it.
C14_OpenDispatches ==
    /\ muxRet.op = "openurl" =>
         IF muxRet.scheme # <<>> /\ HasOpener(muxRet.mux, muxRet.scheme)
         THEN muxRet.err = "none" /\ muxRet.invoked = schemes[muxRet.mux].m[muxRet.scheme]
         ELSE muxRet.err # "none" /\ muxRet.invoked = Absent
    /\ initDone => schemes[DefaultMux].m[Scheme] = URLOpener
    /\ (muxRet.op = "open" /\ muxRet.mux = DefaultMux
          /\ muxRet.scheme = Scheme \o <<":", "/", "/", "h">>)
         => (muxRet.err = "none" /\ muxRet.invoked = URLOpener)

\* The default mux dispatched "mysql" to URLOpener while another mux holds a
\* different opener for the same scheme.
C14_Witness ==
    /\ muxRet.op = "openurl" /\ muxRet.mux = DefaultMux /\ muxRet.scheme = Scheme
    /\ muxRet.invoked = URLOpener
    /\ schemes["mux"].m[Scheme] = "other"

\* C19: two concurrent Watch calls on one watcher can both return the same
\* deletion. A call that sees isDeleted set when it classifies a not-found
\* answer polls again; a call that classified before the flag was set goes on
\* to mark and report, so one deletion is reported at most once per caller.
C19_DeletionPerCaller ==
    /\ [](reports <= Cardinality(callers))
    /\ [][\A c \in callers :
            /\ (Leaves(c, "classify") /\ resp[c].kind = "notfound" /\ w.isDeleted)
                 => (pc'[c] = "timer" /\ ret'[c] = NoReturn /\ reports' = reports)
            /\ Leaves(c, "markDeleted")
                 => (ret'[c].kind = "notfound" /\ w'.isDeleted /\ reports' = reports + 1)]_vars

\* Two fetches were made, both answered not-found, and both callers returned
\* the deletion.
C19_Witness ==
    /\ callers = Procs
    /\ rpcCount = 2
    /\ reports = 2
    /\ \A c \in callers : pc[c] = "idle" /\ ret[c].kind = "notfound" /\ ~entry[c].isDeleted

\* The clock and the fetch cap leave room for the fetch a waiting call needs.
Budget(c) ==
    /\ rpcCount < MaxFetch
    /\ pc[c] = "timer" => w.lastRPCTime + w.waitTime <= MaxTime
    /\ pc[c] = "select" => timer[c].deadline <= MaxTime

\* Caller c's call waits for, or is making, a fetch after the server settled.
Awaiting(c) == stable /\ pc[c] \in {"timer", "select", "rpc"} /\ (pc[c] # "rpc" => Budget(c))

\* C17: Watch returns only with a changed value, a deletion, an error of the
\* fetch, of the timestamp or of the decoder, or the cancellation; a response
\* without change makes it poll again. Under fair scheduling, once every fetch
\* succeeds with decodable content that differs from lastContent, a call that
\* is waiting returns that value unless it is cancelled.
C17_ReturnsOnChange ==
    /\ [][\A c \in callers :
            (pc[c] # "idle" /\ pc'[c] = "idle") =>
                \/ ret'[c].kind = "cancel" /\ ctxDone[c] /\ pc[c] = "select"
                \/ /\ ret'[c].kind = "value" /\ resp[c].kind = "ok"
                   /\ isChange(w, bytesFromProto(resp[c].vpb))
                   /\ ret'[c].val = Decode(bytesFromProto(resp[c].vpb)).val
                \/ ret'[c].kind = "notfound" /\ resp[c].kind = "notfound" /\ w'.isDeleted
                \/ ret'[c].kind = "error" /\ isFatal(resp[c])
                \/ ret'[c].kind = "parse" /\ Malformed(resp[c].vpb.updateTime)
                \/ ret'[c].kind = "decode" /\ Decode(bytesFromProto(resp[c].vpb)).err]_vars
    /\ [][\A c \in callers :
            (Leaves(c, "classify") /\ classify(w, resp[c]) = "loop")
                => (pc'[c] = "timer" /\ ret'[c] = NoReturn)]_vars
    /\ \A c \in Procs :
         Awaiting(c) ~> (pc[c] = "idle" /\ ret[c].kind \in {"value", "cancel"})

\* After the server settled, a call that had polled at least twice returned
\* the fresh value.
C17_Witness ==
    \E c \in callers :
        /\ stable /\ pc[c] = "idle" /\ ret[c].kind = "value"
        /\ rpcCount >= 2 /\ w.bytes.data = lastValue.data /\ lastValue.some

TypeOK ==
    /\ now \in 0..MaxTime
    /\ newErr \in {"pending", "ok", "negative"}
    /\ \A c \in Procs :
         pc[c] \in {"idle", "timer", "select", "rpc", "classify", "update", "markDeleted"}
====
